---- MODULE Spec2Model ----
(***************************************************************************)
(* The file-manager tools of packages/core/src/tools: UploadFileTool and   *)
(* ListFilesTool.  One behaviour follows one invocation: the caller hands  *)
(* parameters to build (validateToolParamValues, createInvocation), and    *)
(* then runs execute, which suspends on the remote files API and resumes   *)
(* to format a ToolResult.                                                 *)
(*                                                                         *)
(* Strings are sequences of one-character strings where the code looks     *)
(* inside them (paths); messages are sequences of text fragments.          *)
(***************************************************************************)
EXTENDS Integers, Sequences, FiniteSets, TLC

\* ------------------------------------------------------------------ bounds
\* Longest absolute_path the caller supplies, in characters.
MaxLen == 5
\* Longest listing the remote sequence yields.
MaxFiles == 2
\* page_size ranges over -MaxPage .. MaxPage, or is absent.
MaxPage == 2

\* ------------------------------------------------------------ small helpers
Range(s) == {s[i] : i \in 1..Len(s)}

\* An optional value: <<>> when undefined, <<v>> when present.
None == <<>>
Some(v) == <<v>>

\* String.prototype.startsWith
startsWith(s, prefix) ==
    /\ Len(prefix) <= Len(s)
    /\ SubSeq(s, 1, Len(prefix)) = prefix

\* ------------------------------------------------------------- node:path
sep == "/"

Chars == {"/", ".", "a", "t", " "}

\* String.prototype.trim
RECURSIVE trimStart(_)
trimStart(s) ==
    IF s # <<>> /\ Head(s) = " " THEN trimStart(Tail(s)) ELSE s

RECURSIVE trimEnd(_)
trimEnd(s) ==
    IF s # <<>> /\ s[Len(s)] = " " THEN trimEnd(SubSeq(s, 1, Len(s) - 1)) ELSE s

trim(s) == trimEnd(trimStart(s))

\* path.isAbsolute (posix)
isAbsolute(p) == Len(p) > 0 /\ p[1] = sep

\* The segments between separators, empty ones included.
RECURSIVE SplitSep(_, _, _)
SplitSep(s, cur, acc) ==
    IF s = <<>> THEN Append(acc, cur)
    ELSE IF Head(s) = sep THEN SplitSep(Tail(s), <<>>, Append(acc, cur))
    ELSE SplitSep(Tail(s), Append(cur, Head(s)), acc)

\* normalizeString of an absolute path: drops "" and ".", lets ".." remove
\* the segment before it and stay at the root.
RECURSIVE normalizeSegments(_, _)
normalizeSegments(segs, out) ==
    IF segs = <<>> THEN out
    ELSE LET s == Head(segs) IN
         IF Len(s) = 0 \/ s = <<".">> THEN normalizeSegments(Tail(segs), out)
         ELSE IF s = <<".", ".">>
              THEN normalizeSegments(Tail(segs),
                       IF Len(out) = 0 THEN out ELSE SubSeq(out, 1, Len(out) - 1))
              ELSE normalizeSegments(Tail(segs), Append(out, s))

RECURSIVE JoinSegments(_)
JoinSegments(segs) ==
    IF segs = <<>> THEN <<>>
    ELSE <<sep>> \o Head(segs) \o JoinSegments(Tail(segs))

\* process.cwd(), which path.resolve puts in front of a relative path.
Cwd == <<"/", "a">>

\* path.resolve of one argument
resolve(p) ==
    LET abs  == IF isAbsolute(p) THEN p ELSE Cwd \o <<sep>> \o p
        segs == normalizeSegments(SplitSep(abs, <<>>, <<>>), <<>>)
    IN  IF segs = <<>> THEN <<sep>> ELSE JoinSegments(segs)

\* path.basename: the last segment, trailing separators ignored.
RECURSIVE stripTrailingSep(_)
stripTrailingSep(p) ==
    IF p # <<>> /\ p[Len(p)] = sep
    THEN stripTrailingSep(SubSeq(p, 1, Len(p) - 1)) ELSE p

basename(p) ==
    LET q    == stripTrailingSep(p)
        segs == SplitSep(q, <<>>, <<>>)
    IN  segs[Len(segs)]

\* The normalized segments of a path, and containment of one directory tree
\* in another, segment by segment.
Segments(p) == normalizeSegments(SplitSep(resolve(p), <<>>, <<>>), <<>>)

IsEqualOrNested(p, dir) ==
    LET ps == Segments(p)
        ds == Segments(dir)
    IN  /\ Len(ds) <= Len(ps)
        /\ SubSeq(ps, 1, Len(ds)) = ds

\* ------------------------------------------------------- configuration
\* AuthType, and the content-generator configurations the Config object
\* hands out: vertexai is set under USE_VERTEX_AI only.
USE_GEMINI == "gemini-api-key"
LOGIN_WITH_GOOGLE == "oauth-personal"
USE_VERTEX_AI == "vertex-ai"
CLOUD_SHELL == "cloud-shell"

ContentGeneratorConfigs ==
    { [vertexai |-> FALSE, authType |-> USE_GEMINI],
      [vertexai |-> FALSE, authType |-> LOGIN_WITH_GOOGLE],
      [vertexai |-> TRUE,  authType |-> USE_VERTEX_AI],
      [vertexai |-> FALSE, authType |-> CLOUD_SHELL] }

\* workspaceContext.getDirectories(): the workspace roots, in order.
WorkspaceRoot == <<"/", "a">>
WorkspaceDirectories == { <<>>, <<WorkspaceRoot>> }

\* config.storage.getProjectTempDir(): a directory of its own below the root.
ProjectTempDirs == { <<"/", "t">> }

\* What fs.existsSync / fs.lstatSync find at a path; "throws" is lstatSync
\* failing on a path existsSync reported.
FsKinds == {"missing", "file", "directory", "throws"}

\* ---------------------------------------------------------- parameters
PathsOfLen(n) == [1..n -> Chars]
Paths == UNION { PathsOfLen(n) : n \in 0..MaxLen }

DisplayNames == { None, Some("My Test File") }
PageSizes == { None } \cup { Some(n) : n \in (0 - MaxPage)..MaxPage }

UploadParams ==
    { [absolute_path |-> p, display_name |-> d, page_size |-> None] :
          p \in Paths, d \in DisplayNames }
ListParams ==
    { [absolute_path |-> <<>>, display_name |-> None, page_size |-> n] :
          n \in PageSizes }

\* ------------------------------------------------- validation messages
\* validateToolParamValues returns null or a message; null is the empty
\* sequence here, and every message has at least one fragment.
Null == <<>>

MsgEmpty == <<"The 'absolute_path' parameter must be non-empty.">>
MsgRelative(filePath) ==
    <<"File path must be absolute, but was relative: ">> \o filePath
        \o <<". You must provide an absolute path.">>

RECURSIVE joinDirectories(_)
joinDirectories(dirs) ==
    IF dirs = <<>> THEN <<>>
    ELSE IF Len(dirs) = 1 THEN Head(dirs)
    ELSE Head(dirs) \o <<", ">> \o joinDirectories(Tail(dirs))

MsgOutside(dirs, tempDir) ==
    <<"File path must be within one of the workspace directories: ">>
        \o joinDirectories(dirs)
        \o <<" or within the project temp directory: ">> \o tempDir
MsgIgnored(filePath) ==
    <<"File path '">> \o filePath \o <<"' is ignored by .geminiignore pattern(s).">>
MsgMissing(filePath) == <<"File does not exist: ">> \o filePath
MsgNotFile(filePath) == <<"Path is not a file: ">> \o filePath
MsgInaccessible(filePath) ==
    <<"File does not exist or cannot be accessed: ">> \o filePath
MsgUploadVertex ==
    <<"File upload is not supported when using Vertex AI. Please use Gemini API (GEMINI_API_KEY) or OAuth authentication.">>
MsgUploadAuth ==
    <<"File upload requires either Gemini API key (GEMINI_API_KEY) or OAuth authentication.">>
MsgPageSize == <<"page_size must be a positive number">>
MsgListVertex ==
    <<"File listing is not supported when using Vertex AI. Please use Gemini API (GEMINI_API_KEY) or OAuth authentication.">>
MsgListAuth ==
    <<"File listing requires either Gemini API key (GEMINI_API_KEY) or OAuth authentication.">>

\* ------------------------------------------------ UploadFileTool.build
\* WorkspaceContext.isPathWithinWorkspace: the resolved path equals or lies
\* below one of the workspace directories.
isPathWithinWorkspace(dirs, filePath) ==
    \E i \in 1..Len(dirs) : IsEqualOrNested(filePath, dirs[i])

\* isWithinTempDir of validateToolParamValues
isWithinTempDirNoEquality(filePath, projectTempDir) ==
    startsWith(resolve(filePath), resolve(projectTempDir) \o <<sep>>)
isWithinTempDirUnresolved(filePath, projectTempDir) ==
    \/ startsWith(filePath, projectTempDir \o <<sep>>)
    \/ filePath = projectTempDir
isWithinTempDirNoSep(filePath, projectTempDir) ==
    startsWith(resolve(filePath), resolve(projectTempDir))
isWithinTempDir(filePath, projectTempDir) ==
    LET resolvedFilePath       == resolve(filePath)
        resolvedProjectTempDir == resolve(projectTempDir)
    IN  \/ startsWith(resolvedFilePath, resolvedProjectTempDir \o <<sep>>)
        \/ resolvedFilePath = resolvedProjectTempDir

\* The checks on the path alone: empty, relative, outside the sandbox.
pathFault(filePath, dirs, projectTempDir) ==
    IF trim(filePath) = <<>> THEN MsgEmpty
    ELSE IF ~isAbsolute(filePath) THEN MsgRelative(filePath)
    ELSE IF ~isPathWithinWorkspace(dirs, filePath)
            /\ ~isWithinTempDir(filePath, projectTempDir)
         THEN MsgOutside(dirs, projectTempDir)
    ELSE Null

\* fileService.shouldGeminiIgnoreFile answered `ignored`.
ignoreFault(filePath, ignored) ==
    IF ignored THEN MsgIgnored(filePath) ELSE Null

\* fs.existsSync and fs.lstatSync found `kind`.
existsFault(filePath, kind) ==
    IF kind = "missing" THEN MsgMissing(filePath)
    ELSE IF kind = "throws" THEN MsgInaccessible(filePath)
    ELSE IF kind # "file" THEN MsgNotFile(filePath)
    ELSE Null

\* The authentication check that closes the validation.
uploadAuthFault(cgc) ==
    IF cgc.vertexai THEN MsgUploadVertex
    ELSE IF cgc.authType # USE_GEMINI /\ cgc.authType # LOGIN_WITH_GOOGLE
         THEN MsgUploadAuth
    ELSE Null

FirstFault(faults) ==
    LET hit == { i \in 1..Len(faults) : faults[i] # Null }
    IN  IF hit = {} THEN Null
        ELSE faults[CHOOSE i \in hit : \A j \in hit : i <= j]

UploadValidateAuthFirst(filePath, dirs, projectTempDir, ignored, kind, cgc) ==
    FirstFault(<< uploadAuthFault(cgc),
                  pathFault(filePath, dirs, projectTempDir),
                  ignoreFault(filePath, ignored),
                  existsFault(filePath, kind) >>)
UploadValidateExistsFirst(filePath, dirs, projectTempDir, ignored, kind, cgc) ==
    FirstFault(<< pathFault(filePath, dirs, projectTempDir),
                  existsFault(filePath, kind),
                  ignoreFault(filePath, ignored),
                  uploadAuthFault(cgc) >>)
\* validateToolParamValues: the first check that fails gives the message.
UploadValidate(filePath, dirs, projectTempDir, ignored, kind, cgc) ==
    FirstFault(<< pathFault(filePath, dirs, projectTempDir),
                  ignoreFault(filePath, ignored),
                  existsFault(filePath, kind),
                  uploadAuthFault(cgc) >>)

\* ------------------------------------------------- ListFilesTool.build
listAuthFault(cgc) ==
    IF cgc.vertexai THEN MsgListVertex
    ELSE IF cgc.authType # USE_GEMINI /\ cgc.authType # LOGIN_WITH_GOOGLE
         THEN MsgListAuth
    ELSE Null

pageSizeFaultNegativeOnly(page_size) ==
    IF page_size # None /\ page_size[1] < 0 THEN MsgPageSize ELSE Null
pageSizeFault(page_size) ==
    IF page_size # None /\ page_size[1] <= 0 THEN MsgPageSize ELSE Null

ListValidate(page_size, cgc) ==
    FirstFault(<< pageSizeFault(page_size), listAuthFault(cgc) >>)

\* ------------------------------------------------------- remote files API
\* ToolErrorType, as far as these tools use it.
UPLOAD_NOT_SUPPORTED == "upload_not_supported"
DOWNLOAD_NOT_SUPPORTED == "download_not_supported"
FILE_UPLOAD_FAILURE == "file_upload_failure"
FILE_DOWNLOAD_FAILURE == "file_download_failure"
FILE_LIST_FAILURE == "file_list_failure"

\* The AbortSignal the caller hands to execute: one signal object, tripped
\* or not.  Identity 0 is a signal made anywhere else.
Signals == { [id |-> 1, aborted |-> a] : a \in BOOLEAN }
FreshSignal == [id |-> 0, aborted |-> FALSE]

\* A GeminiFile as the files API returns it; every field may be missing.
\* isNull marks a response that is no object at all.
File(dn, sz, rest) ==
    [ isNull |-> FALSE, displayName |-> dn, sizeBytes |-> sz,
      name |-> Some("files/test123"), uri |-> rest, mimeType |-> rest,
      state |-> rest, createTime |-> rest ]
UndefinedFile ==
    [ isNull |-> TRUE, displayName |-> None, sizeBytes |-> None,
      name |-> None, uri |-> None, mimeType |-> None,
      state |-> None, createTime |-> None ]

UploadedFiles ==
    { File(dn, sz, Some("set")) :
          dn \in {None, Some("test.txt")}, sz \in {None, Some(0), Some(12)} }
ListedFiles ==
    { File(Some("test1.txt"), Some(12), Some("set")),
      File(Some("test2.mp4"), Some(0), Some("set")),
      File(None, None, None),
      UndefinedFile }

\* The messages of the errors the files API throws.
\* AbortMessage is what the API throws when its abort signal is tripped.
AbortMessage == "This operation was aborted"
ErrorMessages == { "Upload failed", AbortMessage }
TypeErrorMessage == "Cannot read properties of undefined"

\* How files.upload settles.
UploadResponses ==
    { [kind |-> "reject", error |-> e, file |-> UndefinedFile] :
          e \in ErrorMessages }
    \cup { [kind |-> "resolve", error |-> "", file |-> f] :
          f \in UploadedFiles \cup {UndefinedFile} }

\* The sequence files.list resolves to: the files it yields and whether it
\* then throws instead of completing.
SeqsUpTo(S, n) == UNION { [1..k -> S] : k \in 0..n }
Pagers ==
    { [items |-> fs, fails |-> b] :
          fs \in SeqsUpTo(ListedFiles, MaxFiles), b \in BOOLEAN }

\* ------------------------------------------------------------ ToolResult
Ok(content) ==
    [ llmContent |-> content, returnDisplay |-> content, error |-> None ]
Failed(content, type) ==
    [ llmContent |-> content, returnDisplay |-> content,
      error |-> Some([message |-> content, type |-> type]) ]
NoResult == [ llmContent |-> <<>>, returnDisplay |-> <<>>, error |-> None ]

\* How a call of execute ends: it returns a ToolResult or throws.
Return(r) == [ kind |-> "return", result |-> r ]
Throw == [ kind |-> "throw", result |-> NoResult ]

\* -------------------------------------- UploadFileToolInvocation.execute
\* The result of the Vertex AI branch
uploadVertexAsFailure == Return(Failed(MsgUploadVertex, FILE_UPLOAD_FAILURE))
uploadVertex == Return(Failed(MsgUploadVertex, UPLOAD_NOT_SUPPORTED))

\* The files.upload request
uploadRequestFreshSignal(p, signal) ==
    [ op |-> "upload", file |-> p.absolute_path,
      displayName |-> p.display_name, pageSize |-> None,
      abortSignal |-> FreshSignal ]
uploadRequest(p, signal) ==
    [ op |-> "upload", file |-> p.absolute_path,
      displayName |-> p.display_name, pageSize |-> None,
      abortSignal |-> signal ]

\* The catch block
uploadCatchCancelledKind(p, errorMessage) ==
    Return(Failed(<<"Error", " uploading file '">> \o p.absolute_path
                      \o <<"': ", errorMessage>>,
                  IF errorMessage = AbortMessage THEN "cancelled"
                  ELSE FILE_UPLOAD_FAILURE))
uploadCatchNoError(p, errorMessage) ==
    Return(Ok(<<"Error", " uploading file '">> \o p.absolute_path
                  \o <<"': ", errorMessage>>))
uploadCatch(p, errorMessage) ==
    Return(Failed(<<"Error", " uploading file '">> \o p.absolute_path
                      \o <<"': ", errorMessage>>,
                  FILE_UPLOAD_FAILURE))

\* A template literal prints a missing value as "undefined".
Interpolate(v) == IF v = None THEN <<"undefined">> ELSE v

renderSize(sizeBytes) ==
    IF sizeBytes # None /\ sizeBytes[1] # 0
    THEN <<ToString(sizeBytes[1]), " bytes">> ELSE <<"unknown">>

uploadSuccess(p, uploadedFile) ==
    LET fileName    == basename(p.absolute_path)
        displayName == IF uploadedFile.displayName # None
                       THEN uploadedFile.displayName ELSE fileName
        fileUri     == IF uploadedFile.uri # None
                       THEN uploadedFile.uri ELSE uploadedFile.name
    IN  Return(Ok(<<"Successfully uploaded file: ">> \o displayName
                  \o <<"File URI: ">> \o Interpolate(fileUri)
                  \o <<"MIME Type: ">> \o Interpolate(uploadedFile.mimeType)
                  \o <<"Size: ">> \o renderSize(uploadedFile.sizeBytes)
                  \o <<"State: ">> \o Interpolate(uploadedFile.state)
                  \o <<"You can now reference this file in your prompts using the file URI.">>))

\* What the try block throws for a response, or None.
uploadThrown(response) ==
    IF response.kind = "reject" THEN Some(response.error)
    ELSE IF response.file.isNull THEN Some(TypeErrorMessage)
    ELSE None

\* execute from the point where files.upload settled.
uploadSettle(p, response) ==
    IF uploadThrown(response) # None
    THEN uploadCatch(p, uploadThrown(response)[1])
    ELSE uploadSuccess(p, response.file)

\* --------------------------------------- ListFilesToolInvocation.execute
listVertex == Return(Failed(MsgListVertex, DOWNLOAD_NOT_SUPPORTED))

\* The files.list request
listRequest(p, signal) ==
    [ op |-> "list", file |-> <<>>, displayName |-> None,
      pageSize |-> p.page_size, abortSignal |-> signal ]

\* The catch block
listCatchRethrow(errorMessage) == Throw
listCatchUploadKind(errorMessage) ==
    Return(Failed(<<"Error", " listing files from Gemini API: ", errorMessage>>,
                  FILE_UPLOAD_FAILURE))
listCatchNoMessage(errorMessage) ==
    Return(Failed(<<"Error", " listing files from Gemini API">>,
                  FILE_LIST_FAILURE))
listCatch(errorMessage) ==
    Return(Failed(<<"Error", " listing files from Gemini API: ", errorMessage>>,
                  FILE_LIST_FAILURE))

OrElse(v, default) == IF v # None THEN v ELSE <<default>>

formatFileZeroBased(file, index) ==
    <<ToString(index), ". ">> \o OrElse(file.displayName, "N/A")
        \o <<"URI: ">>
        \o (IF file.uri # None THEN file.uri ELSE OrElse(file.name, "N/A"))
        \o <<"MIME Type: ">> \o OrElse(file.mimeType, "unknown")
        \o <<"Size: ">> \o renderSize(file.sizeBytes)
        \o <<"State: ">> \o OrElse(file.state, "unknown")
        \o <<"Created: ">> \o OrElse(file.createTime, "unknown")
formatFile(file, index) ==
    <<ToString(index + 1), ". ">> \o OrElse(file.displayName, "N/A")
        \o <<"URI: ">>
        \o (IF file.uri # None THEN file.uri ELSE OrElse(file.name, "N/A"))
        \o <<"MIME Type: ">> \o OrElse(file.mimeType, "unknown")
        \o <<"Size: ">> \o renderSize(file.sizeBytes)
        \o <<"State: ">> \o OrElse(file.state, "unknown")
        \o <<"Created: ">> \o OrElse(file.createTime, "unknown")

RECURSIVE formatFiles(_, _)
formatFiles(fs, index) ==
    IF index >= Len(fs) THEN <<>>
    ELSE formatFile(fs[index + 1], index)
             \o (IF index + 1 < Len(fs) THEN <<"\n\n">> ELSE <<>>)
             \o formatFiles(fs, index + 1)

MsgNoFiles == <<"No files found", " in the Gemini API file manager.">>

\* What formatting the collected files throws, or None.
listFormatThrown(fs) ==
    IF \E i \in 1..Len(fs) : fs[i].isNull THEN Some(TypeErrorMessage) ELSE None

\* execute from the point where the sequence completed.
listCompleteNoEmptyCase(fs) ==
    IF listFormatThrown(fs) # None
    THEN listCatch(listFormatThrown(fs)[1])
    ELSE Return(Ok(<<"Found ", ToString(Len(fs)),
                     " file(s) in Gemini API file manager:">>
                   \o formatFiles(fs, 0)))
listComplete(fs) ==
    IF Len(fs) = 0 THEN Return(Ok(MsgNoFiles))
    ELSE IF listFormatThrown(fs) # None
         THEN listCatch(listFormatThrown(fs)[1])
    ELSE Return(Ok(<<"Found ", ToString(Len(fs)),
                     " file(s) in Gemini API file manager:">>
                   \o formatFiles(fs, 0)
                   \o <<"You can reference these files in your prompts using their URI, or download them using the download_file tool.">>))

\* ---------------------------------------------------------------- state
VARIABLES
    tool,                    \* "upload" or "list": the tool the caller uses
    params,                  \* the parameters handed to build
    directories,             \* the workspace directories of the Config
    projectTempDir,          \* the project temp directory of the Config
    contentGeneratorConfig,  \* what getContentGeneratorConfig() last returned
    pc,                      \* where the invocation stands
    buildError,              \* the message build threw, or Null
    ignoreSeen,              \* the ignore service's answer, once asked
    fsSeen,                  \* what the file system showed, once looked at
    signal,                  \* the AbortSignal handed to execute
    calls,                   \* the requests made of the files API, in order
    thrown,                  \* the message of the error the try block threw
    pager,                   \* the rest of the sequence files.list gave
    files,                   \* the files collected from the sequence
    result,                  \* the ToolResult execute returned
    uploadedFile,            \* the GeminiFile files.upload resolved to
    yielded,                 \* the files the sequence has produced so far
    pair                     \* two invocations that share the one Config

vars == << tool, params, directories, projectTempDir, contentGeneratorConfig,
           pc, buildError, ignoreSeen, fsSeen, signal, calls, thrown, pager,
           files, result, uploadedFile, yielded, pair >>

remote == << uploadedFile, yielded >>

\* The variables of the one invocation that Spec follows.
single == << tool, params, pc, buildError, ignoreSeen, fsSeen, signal, calls,
             thrown, pager, files, result, uploadedFile, yielded >>

NoPair == [ inv |-> <<>>, files |-> <<>> ]

config == << directories, projectTempDir >>
built == << tool, params, buildError, ignoreSeen, fsSeen >>

NoPager == [ items |-> <<>>, fails |-> FALSE ]

Init ==
    /\ tool \in {"upload", "list"}
    /\ params \in (IF tool = "upload" THEN UploadParams ELSE ListParams)
    /\ directories \in WorkspaceDirectories
    /\ projectTempDir \in ProjectTempDirs
    /\ contentGeneratorConfig \in ContentGeneratorConfigs
    /\ pc = "start"
    /\ buildError = Null
    /\ ignoreSeen = None
    /\ fsSeen = None
    /\ signal = None
    /\ calls = <<>>
    /\ thrown = None
    /\ pager = NoPager
    /\ files = <<>>
    /\ result = NoResult
    /\ uploadedFile = UndefinedFile
    /\ yielded = <<>>
    /\ pair = NoPair

\* UploadFileTool.build: validateToolParamValues, then createInvocation.  The
\* ignore service and the file system are consulted only when the checks
\* before them passed.
UploadBuild ==
    /\ pc = "start"
    /\ tool = "upload"
    /\ \E ignored \in BOOLEAN, kind \in FsKinds :
         LET filePath  == params.absolute_path
             pathOk    == pathFault(filePath, directories, projectTempDir) = Null
             ignoreOk  == pathOk /\ ignoreFault(filePath, ignored) = Null
             fault     == UploadValidate(filePath, directories, projectTempDir,
                                         ignored, kind, contentGeneratorConfig)
         IN  /\ ignoreSeen' = IF pathOk THEN Some(ignored) ELSE None
             /\ fsSeen' = IF ignoreOk THEN Some(kind) ELSE None
             /\ buildError' = fault
             /\ pc' = IF fault = Null THEN "built" ELSE "rejected"
    /\ UNCHANGED << tool, params, config, pair, contentGeneratorConfig, signal,
                    calls, thrown, pager, files, result, remote >>

\* ListFilesTool.build
ListBuild ==
    /\ pc = "start"
    /\ tool = "list"
    /\ LET fault == ListValidate(params.page_size, contentGeneratorConfig)
       IN  /\ buildError' = fault
           /\ pc' = IF fault = Null THEN "built" ELSE "rejected"
    /\ UNCHANGED << tool, params, config, pair, contentGeneratorConfig, ignoreSeen,
                    fsSeen, signal, calls, thrown, pager, files, result,
                    remote >>

\* How execute ends: pc and result.
Finish(completion) ==
    /\ pc' = IF completion.kind = "return" THEN "done" ELSE "raised"
    /\ result' = completion.result

\* UploadFileToolInvocation.execute up to the await: it reads the current
\* content-generator configuration, returns at once under Vertex AI, and
\* otherwise sends the upload request.
UploadExecute ==
    /\ pc = "built"
    /\ tool = "upload"
    /\ \E cgc \in ContentGeneratorConfigs, s \in Signals :
         /\ contentGeneratorConfig' = cgc
         /\ signal' = Some(s)
         /\ IF cgc.vertexai
            THEN /\ Finish(uploadVertex)
                 /\ calls' = calls
            ELSE /\ calls' = Append(calls, uploadRequest(params, s))
                 /\ pc' = "awaiting"
                 /\ result' = result
    /\ UNCHANGED << built, config, pair, thrown, pager, files, remote >>

\* execute resumes when files.upload settles.
UploadResumeWithRetry ==
    /\ pc = "awaiting"
    /\ tool = "upload"
    /\ \E response \in UploadResponses :
         IF response.kind = "reject" /\ Len(calls) < 2
         THEN /\ calls' = Append(calls, calls[1])
              /\ UNCHANGED << pc, result, thrown, uploadedFile >>
         ELSE /\ thrown' = uploadThrown(response)
              /\ uploadedFile' = response.file
              /\ Finish(uploadSettle(params, response))
              /\ calls' = calls
    /\ UNCHANGED << built, config, pair, contentGeneratorConfig, signal, pager,
                    files, yielded >>
UploadResume ==
    /\ pc = "awaiting"
    /\ tool = "upload"
    /\ \E response \in UploadResponses :
         /\ thrown' = uploadThrown(response)
         /\ uploadedFile' = response.file
         /\ Finish(uploadSettle(params, response))
    /\ UNCHANGED << built, config, pair, contentGeneratorConfig, signal, calls,
                    pager, files, yielded >>

\* ListFilesToolInvocation.execute up to the await.
ListExecute ==
    /\ pc = "built"
    /\ tool = "list"
    /\ \E cgc \in ContentGeneratorConfigs, s \in Signals :
         /\ contentGeneratorConfig' = cgc
         /\ signal' = Some(s)
         /\ IF cgc.vertexai
            THEN /\ Finish(listVertex)
                 /\ calls' = calls
            ELSE /\ calls' = Append(calls, listRequest(params, s))
                 /\ pc' = "awaiting"
                 /\ result' = result
    /\ UNCHANGED << built, config, pair, thrown, pager, files, remote >>

\* execute resumes when files.list settles: rejected, or with a sequence
\* it starts to iterate.
ListResume ==
    /\ pc = "awaiting"
    /\ tool = "list"
    /\ \/ \E e \in ErrorMessages :
            /\ thrown' = Some(e)
            /\ Finish(listCatch(e))
            /\ pager' = pager
       \/ \E pg \in Pagers :
            /\ pager' = pg
            /\ pc' = "iterating"
            /\ UNCHANGED << thrown, result >>
    /\ UNCHANGED << built, config, pair, contentGeneratorConfig, signal, calls,
                    files, remote >>

\* One turn of `for await`: the next file is pushed, or the sequence throws,
\* or it completes and the result is formatted.
ListIterate ==
    /\ pc = "iterating"
    /\ IF pager.items # <<>>
       THEN /\ files' = Append(files, Head(pager.items))
            /\ yielded' = Append(yielded, Head(pager.items))
            /\ pager' = [pager EXCEPT !.items = Tail(pager.items)]
            /\ UNCHANGED << pc, thrown, result >>
       ELSE IF pager.fails
       THEN /\ \E e \in ErrorMessages :
                 /\ thrown' = Some(e)
                 /\ Finish(listCatch(e))
            /\ UNCHANGED << pager, files, yielded >>
       ELSE /\ thrown' = listFormatThrown(files)
            /\ Finish(listComplete(files))
            /\ UNCHANGED << pager, files, yielded >>
    /\ UNCHANGED << built, config, pair, contentGeneratorConfig, signal, calls,
                    uploadedFile >>

Next ==
    \/ UploadBuild
    \/ ListBuild
    \/ UploadExecute
    \/ UploadResume
    \/ ListExecute
    \/ ListResume
    \/ ListIterate

Spec == Init /\ [][Next]_vars

\* ------------------------------------------- two invocations, one Config
\* The tools are built on one Config object; two invocations, of the same
\* tool or not, run their executes in any interleaving.  Each keeps its
\* params, what it read and what the files API answered it; `files` holds
\* the array each list invocation collects into.
PairPaths == { <<"/", "a">>, <<"/", "t", "/", "a">> }
PairParams(t) ==
    IF t = "upload"
    THEN { [absolute_path |-> p, display_name |-> None, page_size |-> None] :
               p \in PairPaths }
    ELSE { [absolute_path |-> <<>>, display_name |-> None, page_size |-> n] :
               n \in {None, Some(1)} }

PairFiles ==
    { File(Some("test1.txt"), Some(12), Some("set")),
      File(Some("test2.mp4"), Some(0), Some("set")) }

\* What files.list does for one invocation: it rejects, or it resolves to
\* a sequence that yields `items` and then completes or throws.
ListScripts ==
    { [rejected |-> Some(e), items |-> <<>>, fails |-> FALSE, failure |-> None] :
          e \in ErrorMessages }
    \cup { [rejected |-> None, items |-> fs, fails |-> FALSE, failure |-> None] :
          fs \in SeqsUpTo(PairFiles, MaxFiles) }
    \cup { [rejected |-> None, items |-> fs, fails |-> TRUE,
            failure |-> Some(AbortMessage)] :
          fs \in SeqsUpTo(PairFiles, MaxFiles) }
NoScript == [rejected |-> None, items |-> <<>>, fails |-> FALSE, failure |-> None]
NoResponse == [kind |-> "none", error |-> "", file |-> UndefinedFile]

Invocation(t, p) ==
    [ tool |-> t, params |-> p, pc |-> "start", buildError |-> Null,
      cgc |-> None, response |-> NoResponse, listed |-> NoScript,
      next |-> 1, thrown |-> None, result |-> NoResult ]

Invocations ==
    UNION { { Invocation(t, p) : p \in PairParams(t) } : t \in {"upload", "list"} }

\* files.push(file) of invocation i: `files` is a local of its execute.
pushFileShared(allFiles, i, file) ==
    [ j \in DOMAIN allFiles |-> Append(allFiles[j], file) ]
pushFile(allFiles, i, file) ==
    [ allFiles EXCEPT ![i] = Append(@, file) ]

InitPair ==
    /\ tool = "list"
    /\ params = [absolute_path |-> <<>>, display_name |-> None, page_size |-> None]
    /\ directories \in WorkspaceDirectories
    /\ projectTempDir \in ProjectTempDirs
    /\ contentGeneratorConfig \in
           { c \in ContentGeneratorConfigs : c.authType = USE_GEMINI }
    /\ pc = "start"
    /\ buildError = Null
    /\ ignoreSeen = None
    /\ fsSeen = None
    /\ signal = None
    /\ calls = <<>>
    /\ thrown = None
    /\ pager = NoPager
    /\ files = <<>>
    /\ result = NoResult
    /\ uploadedFile = UndefinedFile
    /\ yielded = <<>>
    /\ pair \in { [ inv |-> <<a, b>>, files |-> << <<>>, <<>> >> ] :
                      a \in Invocations, b \in Invocations }

Ended(r, completion) ==
    [ r EXCEPT !.pc = IF completion.kind = "return" THEN "done" ELSE "raised",
               !.result = completion.result ]

\* build of invocation i
PairBuild ==
    /\ \E i \in DOMAIN pair.inv :
         LET r == pair.inv[i] IN
         /\ r.pc = "start"
         /\ \E ignored \in BOOLEAN, kind \in FsKinds :
              LET fault ==
                      IF r.tool = "upload"
                      THEN UploadValidate(r.params.absolute_path, directories,
                                          projectTempDir, ignored, kind,
                                          contentGeneratorConfig)
                      ELSE ListValidate(r.params.page_size, contentGeneratorConfig)
              IN  pair' = [ pair EXCEPT !.inv[i] =
                              [ r EXCEPT !.buildError = fault,
                                         !.pc = IF fault = Null THEN "built"
                                                ELSE "rejected" ] ]
    /\ UNCHANGED << single, config, contentGeneratorConfig >>

\* execute of invocation i up to the await
PairExecute ==
    /\ \E i \in DOMAIN pair.inv :
         LET r == pair.inv[i] IN
         /\ r.pc = "built"
         /\ \E cgc \in ContentGeneratorConfigs :
              /\ cgc.authType \in {USE_GEMINI, USE_VERTEX_AI}
              /\ pair' = [ pair EXCEPT !.inv[i] =
                            IF cgc.vertexai
                            THEN Ended([r EXCEPT !.cgc = Some(cgc)],
                                       IF r.tool = "upload" THEN uploadVertex
                                       ELSE listVertex)
                            ELSE [ r EXCEPT !.cgc = Some(cgc), !.pc = "awaiting" ] ]
    /\ UNCHANGED << single, config, contentGeneratorConfig >>

\* execute of invocation i resumes when its call settles.
PairResume ==
    /\ \E i \in DOMAIN pair.inv :
         LET r == pair.inv[i] IN
         /\ r.pc = "awaiting"
         /\ IF r.tool = "upload"
            THEN \E response \in UploadResponses :
                   pair' = [ pair EXCEPT !.inv[i] =
                               Ended([ r EXCEPT !.response = response,
                                                !.thrown = uploadThrown(response) ],
                                     uploadSettle(r.params, response)) ]
            ELSE \E script \in ListScripts :
                   pair' = [ pair EXCEPT !.inv[i] =
                               IF script.rejected # None
                               THEN Ended([ r EXCEPT !.listed = script,
                                                     !.thrown = script.rejected ],
                                          listCatch(script.rejected[1]))
                               ELSE [ r EXCEPT !.listed = script,
                                               !.pc = "iterating" ] ]
    /\ UNCHANGED << single, config, contentGeneratorConfig >>

\* One turn of `for await` in invocation i.
PairIterate ==
    /\ \E i \in DOMAIN pair.inv :
         LET r == pair.inv[i] IN
         /\ r.pc = "iterating"
         /\ IF r.next <= Len(r.listed.items)
            THEN pair' = [ inv |-> [ pair.inv EXCEPT ![i] =
                                       [ r EXCEPT !.next = r.next + 1 ] ],
                           files |-> pushFile(pair.files, i,
                                              r.listed.items[r.next]) ]
            ELSE IF r.listed.fails
            THEN pair' = [ pair EXCEPT !.inv[i] =
                             Ended([ r EXCEPT !.thrown = r.listed.failure ],
                                   listCatch(r.listed.failure[1])) ]
            ELSE pair' = [ pair EXCEPT !.inv[i] =
                             Ended([ r EXCEPT !.thrown =
                                         listFormatThrown(pair.files[i]) ],
                                   listComplete(pair.files[i])) ]
    /\ UNCHANGED << single, config, contentGeneratorConfig >>

NextPair ==
    \/ PairBuild
    \/ PairExecute
    \/ PairResume
    \/ PairIterate

SpecPair == InitPair /\ [][NextPair]_vars

\* ================================================================ claims
\* The conditions of the sandbox, stated on the path itself.
Path == params.absolute_path
IsAbsolutePath == Len(Path) > 0 /\ Path[1] = "/"
IsBlankPath == \A i \in 1..Len(Path) : Path[i] = " "
InSomeWorkspaceDirectory ==
    \E i \in 1..Len(directories) : IsEqualOrNested(Path, directories[i])
InTempDirectory == IsEqualOrNested(Path, projectTempDir)
InvocationExists == pc \notin {"start", "rejected"}
BuildReturned == pc \in {"built", "rejected"}
ExecuteStarted == pc \in {"awaiting", "iterating", "done", "raised"}
VertexMode == contentGeneratorConfig.vertexai
SupportedAuth ==
    /\ ~contentGeneratorConfig.vertexai
    /\ contentGeneratorConfig.authType \in {USE_GEMINI, LOGIN_WITH_GOOGLE}

\* C1: an upload invocation exists only for a path that is absolute, lies in
\* a workspace directory or in the project temp directory, and was not
\* matched by the ignore service.
C1_SandboxInvariant ==
    (tool = "upload" /\ InvocationExists) =>
        /\ IsAbsolutePath
        /\ InSomeWorkspaceDirectory \/ InTempDirectory
        /\ ignoreSeen = Some(FALSE)

C1_Witness ==
    /\ tool = "upload"
    /\ pc = "built"
    /\ InTempDirectory
    /\ ~InSomeWorkspaceDirectory

\* C2: execute never raises: whatever the files API does (the call rejects,
\* the sequence fails before its first element or in the middle), execute
\* ends by returning a ToolResult.
C2_ExecuteNeverRaises ==
    /\ pc # "raised"
    /\ thrown # None => pc = "done"

C2_Witness ==
    /\ tool = "list"
    /\ pc = "done"
    /\ thrown # None
    /\ Len(files) > 0
    /\ pager.fails

\* C3: in every result execute returns, error is set exactly when the
\* operation did not complete (the try block threw, or the tool was
\* unavailable), and both content strings are non-empty.
C3_ResultInvariant ==
    pc = "done" =>
        /\ result.error # None <=> (thrown # None \/ VertexMode)
        /\ result.llmContent # <<>>
        /\ result.returnDisplay # <<>>

C3_Witness ==
    /\ pc = "done"
    /\ tool = "upload"
    /\ thrown # None
    /\ result.error # None

\* C4 as stated: under Vertex AI the fault of the upload build is the
\* capability one, whatever the state of the path.
C4_CapabilityGateFirst ==
    (tool = "upload" /\ BuildReturned /\ VertexMode) =>
        /\ pc = "rejected"
        /\ buildError = MsgUploadVertex

\* C4 amended: under Vertex AI the upload build always fails, and the fault
\* is the capability one exactly when the path passes every path rule;
\* otherwise the fault is a path rule's message.
PathRulesPass ==
    /\ ~IsBlankPath
    /\ IsAbsolutePath
    /\ InSomeWorkspaceDirectory \/ InTempDirectory
    /\ ignoreSeen = Some(FALSE)
    /\ fsSeen = Some("file")

C4_CapabilityGateLast ==
    (tool = "upload" /\ BuildReturned /\ VertexMode) =>
        /\ pc = "rejected"
        /\ buildError = MsgUploadVertex <=> PathRulesPass

C4_Witness ==
    /\ tool = "upload"
    /\ pc = "rejected"
    /\ VertexMode
    /\ buildError = MsgOutside(directories, projectTempDir)

\* C5: the fault of the upload build is the message of the first rule the
\* path violates, in the order empty, not absolute, outside the sandbox,
\* ignored, missing, not a regular file; a later rule's message is reported
\* only when every earlier rule passed.
Rule1 == IsBlankPath
Rule2 == ~IsAbsolutePath
Rule3 == ~(InSomeWorkspaceDirectory \/ InTempDirectory)
Rule4 == ignoreSeen = Some(TRUE)
Rule5 == fsSeen = Some("missing")
Rule6 == fsSeen = Some("directory")

C5_RuleOrder ==
    (tool = "upload" /\ BuildReturned) =>
        /\ buildError = MsgEmpty <=> Rule1
        /\ buildError = MsgRelative(Path) <=> (~Rule1 /\ Rule2)
        /\ buildError = MsgOutside(directories, projectTempDir)
               <=> (~Rule1 /\ ~Rule2 /\ Rule3)
        /\ buildError = MsgIgnored(Path)
               <=> (~Rule1 /\ ~Rule2 /\ ~Rule3 /\ Rule4)
        /\ buildError = MsgMissing(Path)
               <=> (~Rule1 /\ ~Rule2 /\ ~Rule3 /\ ignoreSeen = Some(FALSE)
                      /\ Rule5)
        /\ buildError = MsgNotFile(Path)
               <=> (~Rule1 /\ ~Rule2 /\ ~Rule3 /\ ignoreSeen = Some(FALSE)
                      /\ Rule6)

C5_Witness ==
    /\ tool = "upload"
    /\ pc = "rejected"
    /\ buildError = MsgNotFile(Path)
    /\ ignoreSeen = Some(FALSE)

\* C6 as stated: execute never returns a capability kind; the only kinds it
\* produces are the remote-failure kinds.
ErrorType == result.error[1].type

C6_OnlyRemoteFailureKinds ==
    (pc = "done" /\ result.error # None) =>
        ErrorType \in {FILE_UPLOAD_FAILURE, FILE_DOWNLOAD_FAILURE,
                       FILE_LIST_FAILURE}

\* C6 amended: execute returns a capability kind exactly when the
\* configuration it reads reports Vertex AI (UPLOAD_NOT_SUPPORTED from
\* upload, DOWNLOAD_NOT_SUPPORTED from list), without calling the files API;
\* every other error is the tool's remote-failure kind.
C6_CapabilityKindUnderVertex ==
    (pc = "done" /\ result.error # None) =>
        IF VertexMode
        THEN /\ ErrorType = (IF tool = "upload" THEN UPLOAD_NOT_SUPPORTED
                             ELSE DOWNLOAD_NOT_SUPPORTED)
             /\ calls = <<>>
        ELSE ErrorType = (IF tool = "upload" THEN FILE_UPLOAD_FAILURE
                          ELSE FILE_LIST_FAILURE)

C6_Witness ==
    /\ pc = "done"
    /\ tool = "upload"
    /\ result.error # None
    /\ ErrorType = UPLOAD_NOT_SUPPORTED

\* C7 as stated: whenever error is set, both content strings contain the
\* word "Error" and the underlying failure message.
HasErrorWord(content) == "Error" \in Range(content)

C7_ErrorWordAlways ==
    (pc = "done" /\ result.error # None) =>
        /\ HasErrorWord(result.llmContent)
        /\ HasErrorWord(result.returnDisplay)
        /\ thrown # None => /\ thrown[1] \in Range(result.llmContent)
                            /\ thrown[1] \in Range(result.returnDisplay)

\* C7 amended: when the try block threw, both content strings contain the
\* word "Error" and the message of what was thrown; the result of the
\* Vertex AI branch carries the capability message alone, without the word.
C7_ErrorWordOnCatch ==
    (pc = "done" /\ result.error # None) =>
        IF thrown # None
        THEN /\ HasErrorWord(result.llmContent)
             /\ HasErrorWord(result.returnDisplay)
             /\ thrown[1] \in Range(result.llmContent)
             /\ thrown[1] \in Range(result.returnDisplay)
        ELSE /\ result.llmContent
                    = (IF tool = "upload" THEN MsgUploadVertex ELSE MsgListVertex)
             /\ result.returnDisplay = result.llmContent
             /\ ~HasErrorWord(result.llmContent)

C7_Witness ==
    /\ pc = "done"
    /\ tool = "list"
    /\ thrown # None
    /\ result.error # None
    /\ HasErrorWord(result.llmContent)

\* C8: the list build rejects every page_size <= 0 with the one message
\* 'page_size must be a positive number' under every authentication mode,
\* and accepts page_size >= 1 or no page_size under a supported mode.
PageSize == params.page_size

C8_PageSizeBoundary ==
    (tool = "list" /\ BuildReturned) =>
        /\ (PageSize # None /\ PageSize[1] <= 0) =>
               (pc = "rejected" /\ buildError = MsgPageSize)
        /\ ((PageSize = None \/ PageSize[1] >= 1) /\ SupportedAuth) =>
               pc = "built"

C8_Witness ==
    /\ tool = "list"
    /\ pc = "rejected"
    /\ PageSize = Some(0)
    /\ VertexMode
    /\ buildError = MsgPageSize

\* C9: a path equal to or nested under the project temp directory is never
\* refused with the 'must be within one of the workspace directories'
\* message, whatever the workspace directories are.
C9_TempCarveOut ==
    (tool = "upload" /\ BuildReturned /\ IsAbsolutePath /\ InTempDirectory) =>
        buildError # MsgOutside(directories, projectTempDir)

C9_Witness ==
    /\ tool = "upload"
    /\ pc = "built"
    /\ directories = <<>>
    /\ Path = projectTempDir \o <<"/", "a">>

\* C10: the abort signal in the request to the files API is the signal the
\* caller handed to execute, and execute sends that request whether or not
\* the signal is already tripped.
C10_SignalPassThrough ==
    ExecuteStarted =>
        /\ \A i \in 1..Len(calls) : calls[i].abortSignal = signal[1]
        /\ ~VertexMode => Len(calls) = 1

C10_Witness ==
    /\ tool = "upload"
    /\ pc = "awaiting"
    /\ signal[1].aborted
    /\ Len(calls) = 1

\* C11: a call that fails because the signal was already tripped is
\* reported with the tool's generic remote-failure kind; no result carries
\* a kind of its own for cancellation.
ErrorTypes ==
    { UPLOAD_NOT_SUPPORTED, DOWNLOAD_NOT_SUPPORTED, FILE_UPLOAD_FAILURE,
      FILE_DOWNLOAD_FAILURE, FILE_LIST_FAILURE }

C11_CancelledIsGenericFailure ==
    pc = "done" =>
        /\ result.error # None => ErrorType \in ErrorTypes
        /\ (signal[1].aborted /\ thrown = Some(AbortMessage)) =>
               /\ result.error # None
               /\ ErrorType = (IF tool = "upload" THEN FILE_UPLOAD_FAILURE
                               ELSE FILE_LIST_FAILURE)

C11_Witness ==
    /\ pc = "done"
    /\ tool = "upload"
    /\ signal[1].aborted
    /\ thrown = Some(AbortMessage)
    /\ result.error # None

\* C12: when the sequence yields n >= 1 files and completes, the list
\* result has no error, says 'Found n file(s)', and enumerates exactly those
\* files, numbered 1..n, in the order the sequence produced them.
Content == result.llmContent
EntryMarks == { k \in 1..Len(Content) : Content[k] = ". " }
\* The position of the i-th entry mark, counted from the left.
EntryMark(i) ==
    CHOOSE k \in EntryMarks : Cardinality({ j \in EntryMarks : j <= k }) = i
ShownName(file) ==
    IF file.displayName # None THEN file.displayName[1] ELSE "N/A"
ListCompleted ==
    /\ tool = "list"
    /\ pc = "done"
    /\ calls # <<>>
    /\ thrown = None

C12_ListingInOrder ==
    (ListCompleted /\ Len(yielded) >= 1) =>
        /\ result.error = None
        /\ result.returnDisplay = Content
        /\ Content[1] = "Found "
        /\ Content[2] = ToString(Len(yielded))
        /\ Cardinality(EntryMarks) = Len(yielded)
        /\ \A i \in 1..Len(yielded) :
               /\ Content[EntryMark(i) - 1] = ToString(i)
               /\ Content[EntryMark(i) + 1] = ShownName(yielded[i])

C12_Witness ==
    /\ ListCompleted
    /\ Len(yielded) = 2
    /\ yielded[1].displayName = Some("test2.mp4")
    /\ yielded[2].displayName = Some("test1.txt")

\* C13: when the sequence completes without a file, the list result says
\* 'No files found' and has no error; 'Found n file(s)' never comes with
\* n = 0.
C13_EmptyListing ==
    /\ (ListCompleted /\ yielded = <<>>) =>
           /\ result.error = None
           /\ "No files found" \in Range(Content)
           /\ "Found " \notin Range(Content)
    /\ (pc = "done" /\ "Found " \in Range(Content)) => Content[2] # "0"

C13_Witness ==
    /\ ListCompleted
    /\ yielded = <<>>
    /\ ~pager.fails
    /\ "No files found" \in Range(Content)

\* C14: when the list call or its sequence fails, before the first file or
\* after some, the result has the kind FILE_LIST_FAILURE, which is neither
\* the upload nor the download kind, and shows none of the files yielded
\* before the failure.
C14_ListFailureAllOrNothing ==
    (tool = "list" /\ pc = "done" /\ thrown # None) =>
        /\ result.error # None
        /\ ErrorType = FILE_LIST_FAILURE
        /\ ErrorType \notin {FILE_UPLOAD_FAILURE, FILE_DOWNLOAD_FAILURE}
        /\ EntryMarks = {}
        /\ "Found " \notin Range(Content)
        /\ \A i \in 1..Len(yielded) : ShownName(yielded[i]) \notin Range(Content)

C14_Witness ==
    /\ tool = "list"
    /\ pc = "done"
    /\ pager.fails
    /\ Len(yielded) >= 1
    /\ ~yielded[1].isNull
    /\ ErrorType = FILE_LIST_FAILURE

\* C15: a size that is present in the remote file, the value 0 included, is
\* rendered as '<N> bytes'; 'unknown' is rendered only when the size is
\* absent.
SizeMarks == { k \in 1..Len(Content) : Content[k] = "Size: " }
RenderedSize(file, k) ==
    IF file.sizeBytes # None
    THEN /\ Content[k + 1] = ToString(file.sizeBytes[1])
         /\ Content[k + 2] = " bytes"
    ELSE Content[k + 1] = "unknown"

C15_SizeRendering ==
    (tool = "upload" /\ pc = "done" /\ result.error = None) =>
        \A k \in SizeMarks : RenderedSize(uploadedFile, k)

\* C16 as stated: build calls the files API not at all, and every execute
\* that has ended made exactly one call of it.
C16_OneCallPerExecute ==
    /\ ~ExecuteStarted => calls = <<>>
    /\ pc = "done" => Len(calls) = 1

\* C16 amended: an invocation goes Built -> Executing -> Succeeded or Failed
\* and stays there; build makes no call; execute makes one call, or none
\* when the configuration it reads reports Vertex AI, and never a second
\* one, so the calls never outnumber the executes started.
Lifecycle ==
    { <<"start", "built">>, <<"start", "rejected">>,
      <<"built", "awaiting">>, <<"built", "done">>,
      <<"awaiting", "iterating">>, <<"awaiting", "done">>,
      <<"iterating", "done">> }
ExecutesStarted == IF ExecuteStarted THEN 1 ELSE 0

C16_CallCount ==
    /\ ~ExecuteStarted => calls = <<>>
    /\ ExecuteStarted => Len(calls) = (IF VertexMode THEN 0 ELSE 1)
    /\ Len(calls) <= ExecutesStarted

C16_Step ==
    /\ pc' # pc => <<pc, pc'>> \in Lifecycle
    /\ calls' # calls => (pc = "built" /\ pc' = "awaiting")
    /\ pc \in {"done", "rejected"} => UNCHANGED vars

C16_AtMostOneCall == [](C16_CallCount) /\ [][C16_Step]_vars

C16_Witness ==
    /\ pc = "done"
    /\ calls = <<>>
    /\ result.error # None
    /\ buildError = Null

\* C18: a path outside every workspace directory that only shares a string
\* prefix with the temp directory (a sibling such as '<temp>x') is not in
\* the temp directory: the containment rule rejects it.  Only the temp
\* directory itself and the paths below it pass by the carve-out.
SharesTempPrefix == startsWith(resolve(Path), resolve(projectTempDir))

C18_TempComponentBoundary ==
    (tool = "upload" /\ BuildReturned /\ ~IsBlankPath /\ IsAbsolutePath
         /\ ~InSomeWorkspaceDirectory) =>
        (buildError # MsgOutside(directories, projectTempDir)
             <=> InTempDirectory)

C18_Witness ==
    /\ tool = "upload"
    /\ pc = "rejected"
    /\ SharesTempPrefix
    /\ ~InTempDirectory
    /\ ~InSomeWorkspaceDirectory
    /\ buildError = MsgOutside(directories, projectTempDir)

\* C17: in every interleaving of the executes of two invocations on one
\* Config, each result is the one that invocation returns when run alone
\* against the same answers of the files API; a step of one invocation
\* leaves the other untouched, and no step changes the configuration or
\* anybody's params.
Alone(r) ==
    IF r.cgc[1].vertexai
    THEN (IF r.tool = "upload" THEN uploadVertex ELSE listVertex).result
    ELSE IF r.tool = "upload" THEN uploadSettle(r.params, r.response).result
    ELSE IF r.listed.rejected # None THEN listCatch(r.listed.rejected[1]).result
    ELSE IF r.listed.fails THEN listCatch(r.listed.failure[1]).result
    ELSE listComplete(r.listed.items).result

C17_ResultsAsAlone ==
    \A i \in DOMAIN pair.inv :
        /\ pair.inv[i].pc # "raised"
        /\ pair.inv[i].pc = "done" => pair.inv[i].result = Alone(pair.inv[i])

C17_Frame ==
    /\ directories' = directories
    /\ projectTempDir' = projectTempDir
    /\ contentGeneratorConfig' = contentGeneratorConfig
    /\ \A i \in DOMAIN pair.inv : pair.inv[i].params' = pair.inv[i].params
    /\ \E i \in DOMAIN pair.inv :
           \A j \in DOMAIN pair.inv \ {i} :
               /\ pair.inv[j]' = pair.inv[j]
               /\ pair.files[j]' = pair.files[j]

C17_Independent == [](C17_ResultsAsAlone) /\ [][C17_Frame]_vars

C17_Witness ==
    /\ pair # NoPair
    /\ pair.inv[1].tool = "list"
    /\ pair.inv[1].pc = "done"
    /\ pair.inv[1].result.error = None
    /\ Len(pair.files[1]) = 2
    /\ pair.inv[2].tool = "list"
    /\ pair.inv[2].pc = "iterating"
    /\ Len(pair.files[2]) = 1
    /\ pair.files[2][1] # pair.files[1][1]

====
